---------------------------- MODULE Spec2Model ----------------------------
(***************************************************************************)
(* Model of the rewiring engine (src/models.py: model1, model2, model3)    *)
(* and of the configuration-model builder (src/utilities.py:               *)
(* configuration_A).                                                       *)
(*                                                                         *)
(* A graph is a set of edges; an edge is the set of its end points, so a   *)
(* self-loop on v is {v} and an ordinary edge is {u, v}.  networkx keeps   *)
(* at most one edge per unordered pair, which the set gives for free:      *)
(* add_edge is a union and remove_edge a set difference.                   *)
(*                                                                         *)
(* Clustering coefficients are rationals; they are kept as integers in     *)
(* units of 1 / (n * ClusterScale), n the number of nodes of the run.      *)
(* The random module is a nondeterministic choice, the alarm an action     *)
(* that may fire at any position of the try block.                         *)
(***************************************************************************)
EXTENDS Integers, Sequences, FiniteSets, TLC

\* ---- bounds of the model ------------------------------------------------
NumNodes == 3
MaxRounds == 1
MaxLen == 3
MaxDegree == 2

VARIABLES
    model,                   \* which of model1 / model2 / model3 runs
    n,                       \* number of nodes of G (nodes are 0 .. n-1)
    G,                       \* the graph's edge set, mutated in place
    G0,                      \* the edge set at the call (history)
    c_current, cluster, allowed_error, nodes_per_round,
    c_steps, i,
    node,                    \* the for-loop variable of the per-node loop
    degree_of_removed_node,  \* model3's local; Unbound until first assigned
    selected_nodes, c_possible,
    pc,                      \* position inside the try block
    status,                  \* running / Converged / TimedOut / Raised
    exc,                     \* the exception that ended the call, if any
    result,                  \* the returned triple, NoResult before return
    \* history of the graph, read by the properties only
    G_step,                  \* G when the current per-node step began
    G_before,                \* G after the removal, before the first candidate
    \* configuration_A
    S,                       \* the degree sequence
    stubs,                   \* the list of stubs
    nodesA, graphA,          \* node set and edge set of the graph n it builds
    pcA,                     \* idle / sample / loop / returned
    \* configuration_B
    nB,                      \* its parameter n, the number of nodes
    P                        \* the weights of the degrees 0 .. len(P)-1

sampler == <<nB, P>>

builder == <<S, stubs, nodesA, graphA, pcA, sampler>>

vars == <<model, n, G, G0, c_current, cluster, allowed_error, nodes_per_round,
          c_steps, i, node, degree_of_removed_node, selected_nodes,
          c_possible, pc, status, exc, result, G_step, G_before,
          builder>>

Unbound == -1
NoResult == [graph |-> {}, rounds |-> -1, trajectory |-> <<>>]

\* ---- graphs -------------------------------------------------------------
Nodes(k) == 0 .. (k - 1)

Edge(u, v) == {u, v}

AllEdges(k) == {Edge(u, v) : u \in Nodes(k), v \in Nodes(k)}

SimpleGraphs(k) == SUBSET {e \in AllEdges(k) : Cardinality(e) = 2}

\* G.neighbors(v) / G[v]: a self-loop makes v its own neighbour.
Neighbors(g, v) == {w \in UNION g : Edge(v, w) \in g}

\* G.degree(v): a self-loop counts twice.
Degree(g, v) ==
    Cardinality(Neighbors(g, v) \ {v}) + (IF {v} \in g THEN 2 ELSE 0)

add_edge(g, u, v) == g \cup {Edge(u, v)}

remove_edge(g, u, v) == g \ {Edge(u, v)}

NoSelfLoop(g) == \A e \in g : Cardinality(e) = 2

\* ---- nx.average_clustering ----------------------------------------------
Pairs(d) == (d * (d - 1)) \div 2

RECURSIVE ScaleUpTo(_)
ScaleUpTo(d) == IF d < 2 THEN 1 ELSE Pairs(d) * ScaleUpTo(d - 1)

\* A common multiple of every Pairs(d) a node of the model can have.
ClusterScale == ScaleUpTo(NumNodes - 1)

\* Self-loops are ignored by networkx's triangle count (vs = G[v] - {v}).
Triangles(g, v) ==
    LET vs == Neighbors(g, v) \ {v}
    IN  Cardinality({e \in g : Cardinality(e) = 2 /\ e \subseteq vs})

LocalClustering(g, v) ==
    LET d == Cardinality(Neighbors(g, v) \ {v})
    IN  IF d < 2 THEN 0 ELSE (Triangles(g, v) * ClusterScale) \div Pairs(d)

RECURSIVE SumClustering(_, _)
SumClustering(g, k) ==
    IF k = 0 THEN 0 ELSE LocalClustering(g, k - 1) + SumClustering(g, k - 1)

\* sum of the local coefficients / n, in units of 1 / (n * ClusterScale)
average_clustering(g, k) == SumClustering(g, k)

One(k) == k * ClusterScale

\* ---- nx.connected_components / nx.is_connected ---------------------------
RECURSIVE Reach(_, _)
Reach(g, s) ==
    LET t == s \cup UNION {Neighbors(g, v) : v \in s}
    IN  IF t = s THEN s ELSE Reach(g, t)

Component(g, v) == Reach(g, {v})

is_connected(g, k) == Component(g, 0) = Nodes(k)

\* mutant: the first component generated, whatever its size
first_cc(g, k) == Component(g, 0)

\* max(nx.connected_components(G), key=len): components are generated in
\* node order, and max keeps the first of the largest ones.
largest_cc(g, k) ==
    LET best == CHOOSE v \in Nodes(k) :
                  /\ \A w \in Nodes(k) :
                        Cardinality(Component(g, w)) <= Cardinality(Component(g, v))
                  /\ \A w \in Nodes(k) :
                        Cardinality(Component(g, w)) = Cardinality(Component(g, v))
                            => \E x \in Component(g, v) : x <= w
    IN  Component(g, best)


\* ---- the shared convergence loop ----------------------------------------
\* mutant: node ids counted from 1
node_listFromOne(k) == [j \in 1 .. k |-> j]

node_list(k) == [j \in 1 .. k |-> j - 1]

Range(s) == {s[j] : j \in DOMAIN s}

cluster_bound(target, err) == <<target - err, target + err>>

\* mutant: the interval taken as open
OutsideOpen(c, target, err) ==
    c <= cluster_bound(target, err)[1] \/ c >= cluster_bound(target, err)[2]

\* mutant: only the lower bound is tested
OutsideBelowOnly(c, target, err) == c < cluster_bound(target, err)[1]

\* the while condition: the coefficient lies outside the closed interval
Outside(c, target, err) ==
    c < cluster_bound(target, err)[1] \/ c > cluster_bound(target, err)[2]

InBand(c, target, err) == target - err <= c /\ c <= target + err

\* utilities.timeout_handler: what the alarm raises
timeout_handler == "TimeoutException"

\* mutant: the except clause names another exception
CatchesTimeoutError(e) == e = "TimeoutError"

\* the except clause of the models
Catches(e) == e = "TimeoutException"

\* model1: every node that was no neighbour before the removal, node excepted
possible_new_links1(current_links, v, k) ==
    SelectSeq(node_list(k), LAMBDA x : x \notin current_links /\ x # v)

\* model2: the extended neighbourhood is read after the removal, and the
\* node itself is discarded from it
extended_neighbors(g, current_links, v) ==
    (current_links \cup UNION {Neighbors(g, nb) : nb \in current_links}) \ {v}

possible_new_links2(g, current_links, v, k) ==
    SelectSeq(node_list(k),
              LAMBDA x : x \notin extended_neighbors(g, current_links, v))

\* model3: nodes whose degree (after the removal) equals the captured one
possible_new_links3(g, deg, v, k) ==
    SelectSeq(node_list(k), LAMBDA x : Degree(g, x) = deg /\ x # v)

\* random.sample(pool, k): k distinct positions, in any order
Samples(pool, k) ==
    {[j \in 1 .. k |-> pool[f[j]]] :
        f \in {h \in [1 .. k -> DOMAIN pool] :
                 \A a, b \in 1 .. k : a # b => h[a] # h[b]}}

Selections(pool, npr) ==
    IF Len(pool) > npr THEN Samples(pool, npr) ELSE {pool}

RECURSIVE SeqMax(_)
SeqMax(s) ==
    IF Len(s) = 1 THEN s[1]
    ELSE LET m == SeqMax(Tail(s)) IN IF s[1] >= m THEN s[1] ELSE m

\* mutant: the last position of the maximum
IndexOfLastMax(s) ==
    CHOOSE j \in DOMAIN s :
        s[j] = SeqMax(s) /\ \A l \in (j + 1) .. Len(s) : s[l] # SeqMax(s)

\* c_possible.index(max(c_possible)): the first position of the maximum
IndexOfMax(s) ==
    CHOOSE j \in DOMAIN s :
        s[j] = SeqMax(s) /\ \A l \in 1 .. (j - 1) : s[l] # SeqMax(s)

\* the loop variable of the evaluation loop: the candidate under evaluation
possible == selected_nodes[Len(c_possible) + 1]

\* the tentative edge that has been added and is not yet removed
Tentative ==
    IF pc = "eval" THEN {Edge(node, possible)} ELSE {}

Running == status = "running"

\* the (cluster, allowed_error) pairs a run is started with
Targets(k) == {<<0, 0>>, <<One(k) - 1, 1>>}
NodesPerRound == {1, 2}

\* the c_current a caller passes: the coefficient of the graph, or 0; for the
\* single-node graph, whose coefficient 0 lies in the band of every target
\* above, also a value outside the bands, so that its only node gets a turn
Supplied(g, k) ==
    {0, average_clustering(g, k)} \cup (IF k = 1 THEN {One(k)} ELSE {})

BuilderIdle ==
    /\ S = <<>>
    /\ stubs = <<>>
    /\ nodesA = {}
    /\ graphA = {}
    /\ pcA = "idle"
    /\ nB = 0
    /\ P = <<>>

Init ==
    /\ BuilderIdle
    /\ model \in {1, 2, 3}
    /\ n \in 1 .. NumNodes
    /\ G \in SimpleGraphs(n)
    /\ G0 = G
    /\ G_step = G /\ G_before = G
    /\ c_current \in Supplied(G, n)
    /\ \E t \in Targets(n) : cluster = t[1] /\ allowed_error = t[2]
    /\ nodes_per_round \in NodesPerRound
    /\ c_steps = <<c_current>>
    /\ i = 0
    /\ node = 0
    /\ degree_of_removed_node = Unbound
    /\ selected_nodes = <<>>
    /\ c_possible = <<>>
    /\ pc = "while"
    /\ status = "running"
    /\ exc = "none"
    /\ result = NoResult

\* what a run of a model never assigns
Params == <<model, n, G0, cluster, allowed_error, nodes_per_round, builder>>

\* while c_current < cluster_bound[0] or c_current > cluster_bound[1]: i += 1
LoopTest ==
    /\ Running /\ pc = "while"
    /\ IF Outside(c_current, cluster, allowed_error)
       THEN /\ i < MaxRounds
            /\ i' = i + 1
            /\ pc' = IF model = 1 THEN "node" ELSE "repair"
       ELSE /\ i' = i
            /\ pc' = "exit"
    /\ node' = 0
    /\ UNCHANGED <<Params, G, c_current, c_steps, degree_of_removed_node,
                   selected_nodes, c_possible, status, exc, result,
                   G_step, G_before>>

\* mutant: the new neighbour is drawn from the whole node list
RepairedToAnyNode(g, k) ==
    IF is_connected(g, k) THEN {g}
    ELSE LET out == Nodes(k) \ largest_cc(g, k)
         IN  {g \cup {Edge(v, f[v]) : v \in out} : f \in [out -> Nodes(k)]}

\* mutant: no repair, as in model1
RepairedNothing(g, k) == {g}

\* the graphs the repair can produce: one edge per node outside largest_cc,
\* to a random member of largest_cc
Repaired(g, k) ==
    IF is_connected(g, k) THEN {g}
    ELSE LET cc == largest_cc(g, k)
             out == Nodes(k) \ cc
         IN  {g \cup {Edge(v, f[v]) : v \in out} : f \in [out -> cc]}

Repair ==
    /\ Running /\ pc = "repair"
    /\ G' \in Repaired(G, n)
    /\ G_step' = G' /\ G_before' = G'
    /\ pc' = "node"
    /\ UNCHANGED <<Params, c_current, c_steps, i, node, degree_of_removed_node,
                   selected_nodes, c_possible, status, exc, result>>

\* the pool of the current node, from the graph g after the removal
Pool(g, current_links, deg) ==
    CASE model = 1 -> possible_new_links1(current_links, node, n)
      [] model = 2 -> possible_new_links2(g, current_links, node, n)
      [] model = 3 -> possible_new_links3(g, deg, node, n)

\* from current_links to c_possible = []: removal, pool, selection
Select(g, current_links, deg) ==
    /\ G' = g
    /\ G_step' = G /\ G_before' = g
    /\ degree_of_removed_node' = deg
    /\ selected_nodes' \in Selections(Pool(g, current_links, deg), nodes_per_round)
    /\ c_possible' = <<>>
    /\ pc' = IF selected_nodes' = <<>> THEN "commit" ELSE "add"
    /\ UNCHANGED <<status, exc>>

RemoveAndSelect ==
    /\ Running /\ pc = "node"
    /\ LET current_links == Neighbors(G, node)
       IN  IF current_links # {}
           THEN \E link_to_remove \in current_links :
                    Select(remove_edge(G, node, link_to_remove), current_links,
                           IF model = 3 THEN Degree(G, link_to_remove)
                                        ELSE degree_of_removed_node)
           ELSE IF model = 3 /\ degree_of_removed_node = Unbound
                THEN /\ status' = "Raised"
                     /\ exc' = "NameError"
                     /\ UNCHANGED <<G, degree_of_removed_node, selected_nodes,
                                    c_possible, pc, G_step, G_before>>
                ELSE Select(G, current_links, degree_of_removed_node)
    /\ UNCHANGED <<Params, c_current, c_steps, i, node, result>>

\* G.add_edge(node, possible)
TentativeAdd ==
    /\ Running /\ pc = "add"
    /\ G' = add_edge(G, node, possible)
    /\ pc' = "eval"
    /\ UNCHANGED <<Params, c_current, c_steps, i, node, degree_of_removed_node,
                   selected_nodes, c_possible, status, exc, result,
                   G_step, G_before>>

\* c_possible.append(nx.average_clustering(G)); G.remove_edge(node, possible);
\* then the next candidate or the selection
EvaluateAndRemove ==
    /\ Running /\ pc = "eval"
    /\ c_possible' = Append(c_possible, average_clustering(G, n))
    /\ G' = remove_edge(G, node, possible)
    /\ pc' = IF Len(c_possible') < Len(selected_nodes) THEN "add" ELSE "commit"
    /\ UNCHANGED <<Params, c_current, c_steps, i, node, degree_of_removed_node,
                   selected_nodes, status, exc, result,
                   G_step, G_before>>

best_node(sel, cs) == sel[IndexOfMax(cs)]

\* if c_possible: G.add_edge(node, best_node); then the next node of the round.
\* selected_nodes and c_possible are reassigned before they are read again,
\* so the step forgets them.
Commit ==
    /\ Running /\ pc = "commit"
    /\ G' = IF c_possible # <<>>
            THEN add_edge(G, node, best_node(selected_nodes, c_possible))
            ELSE G
    /\ IF node + 1 < n
       THEN node' = node + 1 /\ pc' = "node"
       ELSE node' = node /\ pc' = "round_end"
    /\ selected_nodes' = <<>>
    /\ c_possible' = <<>>
    /\ G_step' = G' /\ G_before' = G'
    /\ UNCHANGED <<Params, c_current, c_steps, i, degree_of_removed_node,
                   status, exc, result>>

\* c_current = nx.average_clustering(G); c_steps.append(c_current)
RoundEnd ==
    /\ Running /\ pc = "round_end"
    /\ c_current' = average_clustering(G, n)
    /\ c_steps' = Append(c_steps, c_current')
    /\ pc' = "while"
    /\ UNCHANGED <<Params, G, i, node, degree_of_removed_node, selected_nodes,
                   c_possible, status, exc, result, G_step, G_before>>

Returned == [graph |-> G, rounds |-> i, trajectory |-> c_steps]

\* signal.alarm(0); return G, i, c_steps
ReturnConverged ==
    /\ Running /\ pc = "exit"
    /\ status' = "Converged"
    /\ result' = Returned
    /\ UNCHANGED <<Params, G, c_current, c_steps, i, node,
                   degree_of_removed_node, selected_nodes, c_possible, pc, exc,
                   G_step, G_before>>

\* The alarm goes off somewhere in the try block: the handler raises, and
\* the except clause returns G, i, c_steps as they stand.  pc keeps the
\* position at which the run was interrupted.
Timeout ==
    /\ Running
    /\ exc' = timeout_handler
    /\ IF Catches(exc')
       THEN status' = "TimedOut" /\ result' = Returned
       ELSE status' = "Raised" /\ result' = result
    /\ UNCHANGED <<Params, G, c_current, c_steps, i, node,
                   degree_of_removed_node, selected_nodes, c_possible, pc,
                   G_step, G_before>>

Next ==
    \/ LoopTest
    \/ Repair
    \/ RemoveAndSelect
    \/ TentativeAdd
    \/ EvaluateAndRemove
    \/ Commit
    \/ RoundEnd
    \/ ReturnConverged
    \/ Timeout

Spec == Init /\ [][Next]_vars


\* ---- configuration_A: stub matching --------------------------------------
RECURSIVE Repeat(_, _)
Repeat(x, k) == IF k = 0 THEN <<>> ELSE <<x>> \o Repeat(x, k - 1)

\* [i for i, degree in enumerate(S) for _ in range(degree)]
RECURSIVE StubList(_, _)
StubList(seq, k) ==
    IF k = 0 THEN <<>>
    ELSE StubList(seq, k - 1) \o Repeat(k - 1, seq[k])

\* list.remove(x): drops the first occurrence of x
RECURSIVE ListRemove(_, _)
ListRemove(l, x) ==
    IF l = <<>> THEN <<>>
    ELSE IF Head(l) = x THEN Tail(l)
    ELSE <<Head(l)>> \o ListRemove(Tail(l), x)

\* mutant: only the first stub is removed
RemoveStubsFirstOnly(l, v, w) == ListRemove(l, v)

\* stubs.remove(v); stubs.remove(w)
RemoveStubs(l, v, w) == ListRemove(ListRemove(l, v), w)

Count(l, x) == Cardinality({j \in DOMAIN l : l[j] = x})

RECURSIVE SeqsUpTo(_, _)
SeqsUpTo(vals, k) ==
    IF k = 0 THEN {<<>>}
    ELSE SeqsUpTo(vals, k - 1) \cup [1 .. k -> vals]

EngineIdle ==
    /\ model = 0 /\ n = 0 /\ G = {} /\ G0 = {}
    /\ G_step = {} /\ G_before = {}
    /\ c_current = 0 /\ cluster = 0 /\ allowed_error = 0 /\ nodes_per_round = 0
    /\ c_steps = <<>> /\ i = 0 /\ node = 0
    /\ degree_of_removed_node = Unbound
    /\ selected_nodes = <<>> /\ c_possible = <<>>
    /\ pc = "idle" /\ status = "idle" /\ exc = "none" /\ result = NoResult

engine == <<model, n, G, G0, c_current, cluster, allowed_error, nodes_per_round,
            c_steps, i, node, degree_of_removed_node, selected_nodes,
            c_possible, pc, status, exc, result, G_step, G_before>>

InitA ==
    /\ EngineIdle
    /\ S \in SeqsUpTo(0 .. MaxDegree, MaxLen)
    /\ stubs = StubList(S, Len(S))
    /\ nodesA = Nodes(Len(S))
    /\ graphA = {}
    /\ pcA = "loop"
    /\ nB = 0
    /\ P = <<>>

\* v, w = random.sample(stubs, 2) with v != w: the edge is added and both
\* stubs are removed
DrawPair ==
    /\ pcA = "loop" /\ Len(stubs) > 1
    /\ \E p, q \in DOMAIN stubs :
          /\ p # q
          /\ stubs[p] # stubs[q]
          /\ graphA' = add_edge(graphA, stubs[p], stubs[q])
          /\ nodesA' = nodesA \cup {stubs[p], stubs[q]}
          /\ stubs' = RemoveStubs(stubs, stubs[p], stubs[q])
    /\ UNCHANGED <<engine, S, pcA, sampler>>

\* v, w = random.sample(stubs, 2) with v == w: the draw is discarded
DrawSame ==
    /\ pcA = "loop" /\ Len(stubs) > 1
    /\ \E p, q \in DOMAIN stubs : p # q /\ stubs[p] = stubs[q]
    /\ UNCHANGED vars

\* the while loop ends: return n
ReturnA ==
    /\ pcA = "loop" /\ ~(Len(stubs) > 1)
    /\ pcA' = "returned"
    /\ UNCHANGED <<engine, S, stubs, nodesA, graphA, sampler>>

NextA ==
    \/ DrawPair
    \/ DrawSame
    \/ ReturnA

SpecA == InitA /\ [][NextA]_vars

\* ---- nx.is_valid_degree_sequence_erdos_gallai ----------------------------
RECURSIVE Insert(_, _)
Insert(x, l) ==
    IF l = <<>> THEN <<x>>
    ELSE IF x >= Head(l) THEN <<x>> \o l
    ELSE <<Head(l)>> \o Insert(x, Tail(l))

RECURSIVE SortDesc(_)
SortDesc(l) == IF l = <<>> THEN <<>> ELSE Insert(Head(l), SortDesc(Tail(l)))

RECURSIVE SumSeq(_)
SumSeq(l) == IF l = <<>> THEN 0 ELSE Head(l) + SumSeq(Tail(l))

Min(a, b) == IF a <= b THEN a ELSE b

is_valid_degree_sequence_erdos_gallai(seq) ==
    LET d == SortDesc(seq)
        m == Len(d)
    IN  /\ \A j \in 1 .. m : d[j] >= 0
        /\ SumSeq(d) % 2 = 0
        /\ \A k \in 1 .. m :
              SumSeq(SubSeq(d, 1, k))
                <= k * (k - 1) + SumSeq([j \in 1 .. (m - k) |-> Min(d[k + j], k)])


\* ==== properties ==========================================================
Last(s) == s[Len(s)]

Finished == status \in {"Converged", "TimedOut"}

Connected(g, k) == \A u, v \in Nodes(k) : v \in Reach(g, {u})

\* C1: whichever way a model returns, the returned trajectory has exactly
\* (returned round count + 1) elements.
C1_TrajectoryLength ==
    Finished => Len(result.trajectory) = result.rounds + 1

\* C2: a graph returned on timeout never contains a tentative candidate edge
\* that was added for evaluation and not yet removed.
C2_NoTentativeEdgeReturned ==
    status = "TimedOut" => Tentative \cap result.graph = {}

\* C3: if the supplied c_current already lies in the closed interval
\* [cluster - allowed_error, cluster + allowed_error], no round executes: the
\* graph keeps its edge set, and what is returned is the unchanged graph, a
\* round count of 0 and the one-element trajectory <<c_current>>.
C3_InBandNoRound ==
    InBand(c_steps[1], cluster, allowed_error) =>
        /\ i = 0 /\ G = G0 /\ pc \in {"while", "exit"}
        /\ c_steps = <<c_current>>
        /\ status # "Raised"
        /\ Finished =>
              result = [graph |-> G0, rounds |-> 0, trajectory |-> <<c_steps[1]>>]

C3_Witness ==
    /\ status = "Converged"
    /\ InBand(c_steps[1], cluster, allowed_error)
    /\ G0 # {}
    /\ c_steps[1] = cluster + allowed_error
    /\ result.rounds = 0

\* C4: a return through the non-timeout path has the last element of the
\* trajectory inside the closed acceptance interval; and as long as the
\* latest coefficient is outside it and no timeout fires, the step taken at
\* the loop test starts another round.
C4_ConvergedInBand ==
    /\ [](status = "Converged" =>
             InBand(Last(result.trajectory), cluster, allowed_error))
    /\ [][(/\ status = "running" /\ pc = "while"
           /\ ~InBand(Last(c_steps), cluster, allowed_error)
           /\ status' = "running")
          => (i' = i + 1 /\ pc' \in {"repair", "node"} /\ node' = 0)]_vars

C4_Witness ==
    /\ status = "Converged"
    /\ result.rounds >= 1
    /\ ~InBand(c_steps[1], cluster, allowed_error)
    /\ InBand(Last(result.trajectory), cluster, allowed_error)

\* C5: in model2 and model3 the first per-node rewire attempt of a round
\* starts on a connected graph, whatever the graph was at the start of the
\* round.
C5_ConnectedAfterRepair ==
    (model \in {2, 3} /\ pc = "node" /\ node = 0) => Connected(G, n)

C5_Witness ==
    /\ model \in {2, 3} /\ pc = "node" /\ node = 0 /\ status = "running"
    /\ ~Connected(G0, n)
    /\ Cardinality(G) = Cardinality(G0) + 2

\* C6: in model3, every candidate considered for node v has, when the pool is
\* built, a degree equal to the degree that the far end of the edge v just
\* dropped had before the removal, and v is never a candidate.
C6_CandidateDegree ==
    [][(model = 3 /\ pc = "node" /\ pc' = "add") =>
          \E u \in Neighbors(G, node) :
              /\ G' = remove_edge(G, node, u)
              /\ \A c \in Range(selected_nodes') :
                    c # node /\ Degree(G', c) = Degree(G, u)]_vars

\* C7: starting from a simple graph, no self-loop is in the graph at a
\* committed point of a run (between per-node steps, between rounds, at the
\* exit of the loop).
C7_StaysSimple ==
    pc \in {"while", "repair", "node", "round_end", "exit"} => NoSelfLoop(G)

\* C10: a timeout that fires while the loop runs is caught inside the model:
\* the call returns the triple (G, i, c_steps) as it stands, of the same
\* shape as a converged return, and the exception does not reach the caller.
C10_TimeoutCaught ==
    /\ status = "Raised" => exc # "TimeoutException"
    /\ exc = "TimeoutException" =>
          /\ status = "TimedOut"
          /\ result = [graph |-> G, rounds |-> i, trajectory |-> c_steps]
          /\ result.graph \subseteq AllEdges(n)
          /\ result.rounds \in 0 .. MaxRounds
          /\ Len(result.trajectory) >= 1

C10_Witness ==
    /\ status = "TimedOut" /\ exc = "TimeoutException"
    /\ pc = "eval"
    /\ result.rounds = 1

\* C8: in configuration_A the graph has exactly the nodes 0 .. len(S)-1, no
\* self-loop, and for every node i the realized degree, and the realized
\* degree plus the stubs of i still in the list, never exceed S[i].
C8_BuilderInvariant ==
    pcA \in {"loop", "returned"} =>
        /\ nodesA = Nodes(Len(S))
        /\ NoSelfLoop(graphA)
        /\ UNION graphA \subseteq nodesA
        /\ \A v \in Nodes(Len(S)) :
              /\ Degree(graphA, v) <= S[v + 1]
              /\ Degree(graphA, v) + Count(stubs, v) <= S[v + 1]

C8_Witness ==
    /\ pcA = "returned"
    /\ graphA # {}
    /\ \E v \in Nodes(Len(S)) : Degree(graphA, v) < S[v + 1]
    /\ \E v \in Nodes(Len(S)) : Degree(graphA, v) = 0

\* C9: for a graphical degree sequence the stub-matching loop terminates
\* under fair draws.  Every productive draw shortens the list and a discarded
\* draw changes nothing, so this holds exactly when no reachable state of the
\* loop with two or more stubs is left without a productive draw.
C9_LoopCanProgress ==
    (/\ pcA = "loop"
     /\ is_valid_degree_sequence_erdos_gallai(S)
     /\ Len(stubs) > 1)
        => \E p, q \in DOMAIN stubs : stubs[p] # stubs[q]


\* C11: a timeout in the middle of a round returns the graph as it stood at
\* the last round boundary.  The boundary the model records is the call (G0):
\* as long as no round has completed (the trajectory still has its one
\* initial element) the graph returned on timeout is G0.
C11_ReturnsRoundBoundary ==
    (status = "TimedOut" /\ Len(result.trajectory) = 1) => result.graph = G0

\* the node set of G: the nodes of the call and every end point add_edge
\* brought in (remove_edge leaves nodes in place)
NodesOf(g, k) == Nodes(k) \cup UNION g

\* C12: the node set of the graph is in every state of a run what it was at
\* the call: every edge joins nodes that were already present.
C12_NodeSetFixed ==
    status # "idle" => NodesOf(G, n) = NodesOf(G0, n) /\ UNION G \subseteq Nodes(n)

C12_Witness ==
    /\ status = "running" /\ pc = "round_end"
    /\ model = 2
    /\ ~Connected(G0, n)
    /\ \E e \in G0 : e \notin G
    /\ \E e \in G : e \notin G0


\* C13: on a graph of at least two nodes, with nodes_per_round >= 1 and an
\* alarm that does fire, every run returns, as Converged or as TimedOut, and
\* in no third way: a run never ends by an exception, and as long as it has
\* not returned the alarm can fire and its firing makes it return TimedOut.
C13_EventuallyReturns ==
    (n >= 2 /\ nodes_per_round >= 1) =>
        /\ status \in {"running", "Converged", "TimedOut"}
        /\ Finished => result # NoResult
        /\ status = "running" => ENABLED (Timeout /\ status' = "TimedOut")

C13_Witness ==
    /\ n >= 2 /\ model = 3
    /\ status = "TimedOut"
    /\ result.rounds >= 1
    /\ pc = "node" /\ node = 0
    /\ ~Connected(G0, n)


\* ---- configuration_B: rejection sampling of the degree sequence ----------
\* mutant: the test without the parity of the sum
erdos_gallai_without_parity(seq) ==
    LET d == SortDesc(seq)
        m == Len(d)
    IN  \A k \in 1 .. m :
            SumSeq(SubSeq(d, 1, k))
              <= k * (k - 1) + SumSeq([j \in 1 .. (m - k) |-> Min(d[k + j], k)])

\* the while condition of configuration_B
is_valid(seq) == is_valid_degree_sequence_erdos_gallai(seq)

\* random.choices(population=range(len(P)), weights=P, k=n): n degrees, each
\* one of positive weight
Choices(weights, k) ==
    [1 .. k -> {d \in 0 .. (Len(weights) - 1) : weights[d + 1] > 0}]

WeightLists ==
    {w \in UNION {[1 .. m -> {0, 1}] : m \in 1 .. (MaxDegree + 1)} :
        \E j \in DOMAIN w : w[j] > 0}

InitB ==
    /\ EngineIdle
    /\ nB \in 0 .. MaxLen
    /\ P \in WeightLists
    /\ S = <<1>>
    /\ stubs = <<>>
    /\ nodesA = {}
    /\ graphA = {}
    /\ pcA = "sample"

\* while not is_valid(S): S = random.choices(...)
Resample ==
    /\ pcA = "sample" /\ ~is_valid(S)
    /\ S' \in Choices(P, nB)
    /\ UNCHANGED <<engine, stubs, nodesA, graphA, pcA, sampler>>

\* return configuration_A(S): the builder starts on S
CallA ==
    /\ pcA = "sample" /\ is_valid(S)
    /\ stubs' = StubList(S, Len(S))
    /\ nodesA' = Nodes(Len(S))
    /\ graphA' = {}
    /\ pcA' = "loop"
    /\ UNCHANGED <<engine, S, sampler>>

NextB ==
    \/ Resample
    \/ CallA
    \/ DrawPair
    \/ DrawSame
    \/ ReturnA

SpecB == InitB /\ [][NextB]_vars

\* some simple graph on the nodes 0 .. len(seq)-1 has these degrees
Realizable(seq) ==
    \E g \in SimpleGraphs(Len(seq)) :
        \A v \in Nodes(Len(seq)) : Degree(g, v) = seq[v + 1]

\* C14: every degree sequence configuration_B hands to configuration_A has
\* length n, an even sum and, sorted in descending order, satisfies the
\* Erdos-Gallai inequalities (so a simple graph realizes it); the placeholder
\* [1] is never handed over.
C14_HandedSequenceGraphical ==
    pcA \in {"loop", "returned"} =>
        /\ Len(S) = nB
        /\ S # <<1>>
        /\ SumSeq(S) % 2 = 0
        /\ LET d == SortDesc(S)
           IN  /\ \A j \in 1 .. (Len(d) - 1) : d[j] >= d[j + 1]
               /\ \A k \in 1 .. Len(d) :
                     SumSeq(SubSeq(d, 1, k)) <=
                        k * (k - 1)
                        + SumSeq([j \in 1 .. (Len(d) - k) |-> Min(d[k + j], k)])
        /\ Realizable(S)

C14_Witness ==
    /\ pcA = "returned"
    /\ nB = 3
    /\ S = <<1, 2, 1>>
    /\ Cardinality(graphA) = 2


\* C15: the scoring of the candidates of a node is a pure evaluation: once
\* every candidate has been tentatively added, scored and removed, the edge
\* set is what it was before the first candidate was tried.
C15_EvaluationPure ==
    pc = "commit" => G = G_before


\* the nodes of the graph g within two hops of v, v included
TwoHop(g, v) ==
    {v} \cup Neighbors(g, v) \cup UNION {Neighbors(g, w) : w \in Neighbors(g, v)}

\* C16: in model2 the candidates of a node v are drawn from a pool that is
\* exactly the nodes outside the two-hop set of v in the graph after the
\* removal: no candidate is v, a neighbour of v or a neighbour of a neighbour,
\* and when the pool is not larger than nodes_per_round every such node is a
\* candidate.
C16_PoolOutsideTwoHop ==
    (model = 2 /\ pc \in {"add", "eval", "commit"}) =>
        LET pool == Nodes(n) \ TwoHop(G_before, node)
        IN  /\ Range(selected_nodes) \subseteq pool
            /\ \/ Range(selected_nodes) = pool
               \/ /\ Len(selected_nodes) = nodes_per_round
                  /\ Cardinality(pool) > nodes_per_round


\* C17: in model1 the candidates of a node v are drawn from a pool that is
\* exactly the nodes other than v that are no neighbour of v in the graph
\* after the removal; when the pool is not larger than nodes_per_round every
\* such node is a candidate.
C17_PoolNonNeighbours ==
    (model = 1 /\ pc \in {"add", "eval", "commit"}) =>
        LET pool == Nodes(n) \ ({node} \cup Neighbors(G_before, node))
        IN  /\ Range(selected_nodes) \subseteq pool
            /\ \/ Range(selected_nodes) = pool
               \/ /\ Len(selected_nodes) = nodes_per_round
                  /\ Cardinality(pool) > nodes_per_round


C19_RepairEffect ==
    [][(pc = "repair" /\ pc' # "repair") =>
          IF Connected(G, n)
          THEN G' = G
          ELSE \E w \in Nodes(n) :
                  LET cc  == Component(G, w)
                      out == Nodes(n) \ cc
                  IN  /\ \A x \in Nodes(n) :
                            Cardinality(Component(G, x)) <= Cardinality(cc)
                      /\ G \subseteq G'
                      /\ Cardinality(G' \ G) = Cardinality(out)
                      /\ \A e \in G' \ G :
                            Cardinality(e \cap out) = 1 /\ Cardinality(e \cap cc) = 1
                      /\ \A v \in out :
                            Cardinality({e \in G' \ G : v \in e}) = 1]_vars

\* one node outside a component of two has been joined to it
C19_Witness ==
    /\ model = 2 /\ Running /\ pc = "node" /\ node = 0 /\ i = 1
    /\ n = 3 /\ G0 = {Edge(1, 2)}
    /\ G0 \subseteq G /\ Cardinality(G \ G0) = 1


\* C20: a per-node step on a node that had a neighbour and for which at least
\* one candidate was evaluated leaves the number of edges as it was before the
\* step: one edge removed, one edge added.
C20_RewireKeepsEdgeCount ==
    [][(pc = "commit" /\ pc' # "commit"
            /\ Neighbors(G_step, node) # {} /\ c_possible # <<>>) =>
          Cardinality(G') = Cardinality(G_step)]_vars

\* C21: in model3 no step raises, and the degree the pool of a node v is
\* filtered with was captured in that same step, from the far end of an edge
\* removed from v: a node without a neighbour at its turn neither raises nor
\* filters with a degree left over from an earlier node.
C21_DegreeFromThisStep ==
    /\ status # "Raised"
    /\ (model = 3 /\ pc \in {"add", "eval", "commit"}) =>
          \E u \in Neighbors(G_step, node) :
              /\ G_before = remove_edge(G_step, node, u)
              /\ degree_of_removed_node = Degree(G_step, u)

=============================================================================
